---------------------------- MODULE Spec2Model ----------------------------
(***************************************************************************)
(* A model of the continuous recurrent equilibrium network (class CREN of *)
(* ren_continuous.py) and of the training script that drives it            *)
(* (ren_training.py).                                                      *)
(*                                                                         *)
(* Tensors are matrices of exact rationals: a rational is a pair <<n, d>>  *)
(* in lowest terms with d > 0, a matrix is a sequence of rows.  The batch  *)
(* of states x of shape [b, 1, dim_x] is a b x dim_x matrix (the singleton *)
(* axis carries no data); where the code's result depends on the shape of  *)
(* a tensor, the shape is computed beside the values.                      *)
(***************************************************************************)
EXTENDS Integers, Sequences, FiniteSets, TLC

VARIABLES
    pc,        \* position of the client program
    args,      \* the constructor arguments of the CREN in use
    par,       \* ParameterSet: Pstar, Chi, X, Y1, B2, D12, C2, D21, D22, bx, bv, by
    der,       \* derived matrices: A, B1, C1, D11, P
    x,         \* self.x, the internal state, [batch, 1, dim_x]
    horizonAttr, \* self.horizon
    call,      \* the last method call on the object: its arguments and its result
    snap,      \* the persisted snapshot (state dict and get_init_params), or NoSnap
    nUpd,      \* update_model_param calls since the last mutation of the ParameterSet
    epoch,     \* training loop: epoch
    loss,      \* training loop: loss of the current epoch
    best,      \* training loop: best_loss, best_train_epoch, best_model_stat_dict
    losses,    \* training loop: every loss computed so far with its parameters, in order
    rollouts,  \* number of rollouts done after training
    script,    \* the training script's own arguments and data
    family,    \* the seeds of the parameter values the model draws from
    nCalls     \* method calls made by the client of the object

vars == <<pc, args, par, der, x, horizonAttr, call, snap, nUpd, epoch, loss, best,
          losses, rollouts, script, family, nCalls>>

-----------------------------------------------------------------------------
(* Bounds of the model.                                                    *)
MaxDimX == 2
MaxDimV == 2
MaxSeed == 2
MaxEpochs == 2
MaxHorizon == 3
MaxMagnitude == 30000
MaxCalls == 1
MaxLoss == 1
MaxRollouts == 1

-----------------------------------------------------------------------------
(* Exact rational arithmetic.  A rational is <<n, d>> in lowest terms with *)
(* d > 0 and |n|, d <= MaxMagnitude; a value outside that range is Big,    *)
(* and every operation on Big gives Big.  The model only takes steps whose *)
(* results hold no Big (see DerOK and CallOK below).                       *)
Abs(a) == IF a < 0 THEN -a ELSE a

RECURSIVE GCD(_, _)
GCD(a, b) == IF b = 0 THEN a ELSE GCD(b, a % b)

Big == <<0, 0>>

Rat(n, d) ==
    LET g == GCD(Abs(n), Abs(d))
        s == IF d < 0 THEN -1 ELSE 1
        r == <<(s * n) \div g, (s * d) \div g>>
    IN  IF Abs(r[1]) > MaxMagnitude \/ r[2] > MaxMagnitude THEN Big ELSE r

Int2R(n) == <<n, 1>>
Zero == Int2R(0)
One == Int2R(1)
Half == Rat(1, 2)

RAdd(a, b) ==
    IF a = Big \/ b = Big THEN Big
    ELSE LET g == GCD(a[2], b[2])
         IN  IF (a[2] \div g) * b[2] > MaxMagnitude THEN Big
             ELSE Rat(a[1] * (b[2] \div g) + b[1] * (a[2] \div g), (a[2] \div g) * b[2])
RNeg(a) == <<-a[1], a[2]>>
RSub(a, b) == RAdd(a, RNeg(b))
RMul(a, b) ==
    IF a = Big \/ b = Big THEN Big
    ELSE IF a[1] = 0 \/ b[1] = 0 THEN Zero
    ELSE LET g1 == GCD(Abs(a[1]), b[2])
             g2 == GCD(Abs(b[1]), a[2])
         IN  Rat((a[1] \div g1) * (b[1] \div g2), (a[2] \div g2) * (b[2] \div g1))
RInv(a) == IF a[1] < 0 THEN <<-a[2], -a[1]>> ELSE <<a[2], a[1]>>
RDiv(a, b) == RMul(a, RInv(b))
RAbs(a) == <<Abs(a[1]), a[2]>>
RLt(a, b) == a[1] * b[2] < b[1] * a[2]
RPos(a) == a[1] > 0

RECURSIVE RSum(_)
RSum(s) == IF Len(s) = 0 THEN Zero ELSE RAdd(Head(s), RSum(Tail(s)))

Dot(a, b) == RSum([k \in 1..Len(a) |-> RMul(a[k], b[k])] \o <<>>)

-----------------------------------------------------------------------------
(* Matrices.  Tuple builds a sequence from a function on 1..n; Mat builds  *)
(* a matrix from its entries.                                              *)
Tuple(f) == f \o <<>>

(* F applied to the value of e, e being evaluated once.                    *)
With(e, F(_)) == CHOOSE r \in {F(v) : v \in {e}} : TRUE
Mat(r, c, E(_, _)) == Tuple([i \in 1..r |-> Tuple([j \in 1..c |-> E(i, j)])])

Rows(M) == Len(M)
Cols(M) == IF Len(M) = 0 THEN 0 ELSE Len(M[1])

zeros(r, c) == Mat(r, c, LAMBDA i, j : Zero)
ones(r, c) == Mat(r, c, LAMBDA i, j : One)
eye(n) == Mat(n, n, LAMBDA i, j : IF i = j THEN One ELSE Zero)

Transpose(M) == Mat(Cols(M), Rows(M), LAMBDA j, i : M[i][j])
Column(M, j) == Tuple([i \in 1..Rows(M) |-> M[i][j]])
MAdd(A, B) == Mat(Rows(A), Cols(A), LAMBDA i, j : RAdd(A[i][j], B[i][j]))
MSub(A, B) == Mat(Rows(A), Cols(A), LAMBDA i, j : RSub(A[i][j], B[i][j]))
MNeg(A) == Mat(Rows(A), Cols(A), LAMBDA i, j : RNeg(A[i][j]))
Scale(a, A) == Mat(Rows(A), Cols(A), LAMBDA i, j : RMul(a, A[i][j]))
MatMul(A, B) == With(Transpose(B), LAMBDA Bt : Mat(Rows(A), Rows(Bt), LAMBDA i, j : Dot(A[i], Bt[j])))

(* F.linear(input, weight) = input @ weight^T                              *)
linear(input, weight) == Mat(Rows(input), Rows(weight), LAMBDA i, j : Dot(input[i], weight[j]))

(* torch.split along both axes: the block of rows r0..r1, columns c0..c1.  *)
split(M, r0, r1, c0, c1) ==
    Mat(r1 - r0 + 1, c1 - c0 + 1, LAMBDA i, j : M[r0 + i - 1][c0 + j - 1])

(* torch.tril(M, k): the entries on and below the k-th diagonal.           *)
tril(M, k) == Mat(Rows(M), Cols(M), LAMBDA i, j : IF j - i <= k THEN M[i][j] ELSE Zero)

diagonal(M) == Tuple([i \in 1..Rows(M) |-> M[i][i]])
diag_embed(v) == Mat(Len(v), Len(v), LAMBDA i, j : IF i = j THEN v[i] ELSE Zero)

Minor(M, r, c) ==
    Mat(Rows(M) - 1, Cols(M) - 1,
        LAMBDA i, j : M[IF i < r THEN i ELSE i + 1][IF j < c THEN j ELSE j + 1])

RECURSIVE Det(_)
Det(M) ==
    IF Rows(M) = 0 THEN One
    ELSE RSum([j \in 1..Cols(M) |->
                 RMul(IF j % 2 = 1 THEN M[1][j] ELSE RNeg(M[1][j]), Det(Minor(M, 1, j)))])

Singular(M) == Det(M) = Zero

(* No entry of the matrix is Big.                                          *)
MatOK(M) == \A i \in 1..Rows(M) : \A j \in 1..Cols(M) : M[i][j] # Big

(* torch.inverse of a non-singular matrix (adjugate over determinant).     *)
inverse(M) ==
    LET d == Det(M)
    IN  Mat(Rows(M), Cols(M),
            LAMBDA i, j : RDiv(IF (i + j) % 2 = 0 THEN Det(Minor(M, j, i))
                               ELSE RNeg(Det(Minor(M, j, i))), d))

-----------------------------------------------------------------------------
(* Constructor arguments.                                                  *)
DefaultPosdefTol == Rat(1, 20)
DefaultContractionRateLb == Zero
DefaultWeightInitStd == Half
NoHorizon == "None"

(* The option profiles the model draws the constructor arguments from: the *)
(* defaults; biases, a nonlinear output, a larger tolerance and a positive *)
(* contraction rate; a batch of two; an input of width one; and the        *)
(* tolerances the documentation excludes (zero, negative).                 *)
Profiles ==
    { [dim_in |-> 2, wide_out |-> FALSE, batch_size |-> 1, posdef_tol |-> DefaultPosdefTol,
       contraction_rate_lb |-> DefaultContractionRateLb, add_bias |-> FALSE, linear_output |-> TRUE],
      [dim_in |-> 2, wide_out |-> TRUE, batch_size |-> 1, posdef_tol |-> Rat(1, 10),
       contraction_rate_lb |-> One, add_bias |-> TRUE, linear_output |-> FALSE],
      [dim_in |-> 2, wide_out |-> FALSE, batch_size |-> 2, posdef_tol |-> DefaultPosdefTol,
       contraction_rate_lb |-> DefaultContractionRateLb, add_bias |-> TRUE, linear_output |-> TRUE],
      [dim_in |-> 1, wide_out |-> FALSE, batch_size |-> 1, posdef_tol |-> DefaultPosdefTol,
       contraction_rate_lb |-> DefaultContractionRateLb, add_bias |-> FALSE, linear_output |-> TRUE],
      [dim_in |-> 2, wide_out |-> FALSE, batch_size |-> 1, posdef_tol |-> Zero,
       contraction_rate_lb |-> DefaultContractionRateLb, add_bias |-> FALSE, linear_output |-> TRUE],
      [dim_in |-> 2, wide_out |-> FALSE, batch_size |-> 1, posdef_tol |-> Rat(-1, 20),
       contraction_rate_lb |-> DefaultContractionRateLb, add_bias |-> FALSE, linear_output |-> TRUE] }

MakeArgs(f, nx, nv) ==
    [dim_in |-> f.dim_in, dim_out |-> IF f.wide_out THEN nx ELSE 1, dim_x |-> nx, dim_v |-> nv,
     batch_size |-> f.batch_size, posdef_tol |-> f.posdef_tol,
     contraction_rate_lb |-> f.contraction_rate_lb, add_bias |-> f.add_bias,
     linear_output |-> f.linear_output, weight_init_std |-> DefaultWeightInitStd]

ArgSets == { MakeArgs(f, nx, nv) : f \in Profiles, nx \in 1..MaxDimX, nv \in 1..MaxDimV }

-----------------------------------------------------------------------------
(* Parameter values.  torch.randn is a draw from the reals; the model      *)
(* draws each matrix from a family of matrices with entries in {-1, 0, 1}, *)
(* indexed by a seed.  C2 gets a dominant diagonal, so that it has full    *)
(* row rank (as a random draw has almost surely) and the least-squares     *)
(* problem of set_y_init has the closed form used below.                   *)
Seeds == 0..MaxSeed

Entry(s, k, i, j) == ((s * (i + 2 * j + k) + i * k + j) % 3) - 1

randn(s, k, r, c) == Mat(r, c, LAMBDA i, j : Int2R(Entry(s, k, i, j)))

randnC2(s, r, c) ==
    Mat(r, c, LAMBDA i, j : Int2R(Entry(s, 7, i, j) + (IF i = j THEN 3 ELSE 0)))

(* CREN.__init__, lines 63-86: the ParameterSet.                           *)
InitParams(a, s) ==
    [Pstar |-> randn(s, 1, a.dim_x, a.dim_x),
     Chi   |-> randn(s, 2, a.dim_x, a.dim_v),
     X     |-> randn(s, 3, a.dim_x + a.dim_v, a.dim_x + a.dim_v),
     Y1    |-> randn(s, 4, a.dim_x, a.dim_x),
     B2    |-> randn(s, 5, a.dim_x, a.dim_in),
     D12   |-> randn(s, 6, a.dim_v, a.dim_in),
     C2    |-> randnC2(s, a.dim_out, a.dim_x),
     D21   |-> IF a.linear_output THEN zeros(a.dim_out, a.dim_v)
               ELSE randn(s, 8, a.dim_out, a.dim_v),
     D22   |-> randn(s, 9, a.dim_out, a.dim_in),
     bx    |-> IF a.add_bias THEN randn(s, 10, a.dim_x, 1) ELSE zeros(a.dim_x, 1),
     bv    |-> IF a.add_bias THEN randn(s, 11, a.dim_v, 1) ELSE zeros(a.dim_v, 1),
     by    |-> IF a.add_bias THEN randn(s, 12, a.dim_out, 1) ELSE zeros(a.dim_out, 1)]

(* CREN.__init__, lines 91-95: the derived matrices before the first update. *)
InitDerived(a) ==
    [A   |-> zeros(a.dim_x, a.dim_x),
     D11 |-> zeros(a.dim_v, a.dim_v),
     C1  |-> zeros(a.dim_v, a.dim_x),
     B1  |-> zeros(a.dim_x, a.dim_v),
     P   |-> zeros(a.dim_x, a.dim_x)]

-----------------------------------------------------------------------------
(* CREN.update_model_param.                                                *)
(* Variant: Pstar @ Pstar in place of Pstar @ Pstar^T.                     *)
P_untransposed(a, p) ==
    MAdd(Scale(Half, MatMul(p.Pstar, p.Pstar)), Scale(a.posdef_tol, eye(a.dim_x)))

P_of(a, p) == MAdd(Scale(Half, linear(p.Pstar, p.Pstar)), Scale(a.posdef_tol, eye(a.dim_x)))

H_of(a, p) == MAdd(linear(p.X, p.X), Scale(a.posdef_tol, eye(a.dim_x + a.dim_v)))

H1_of(a, p) == split(H_of(a, p), 1, a.dim_x, 1, a.dim_x)
H2_of(a, p) == split(H_of(a, p), 1, a.dim_x, a.dim_x + 1, a.dim_x + a.dim_v)
H3_of(a, p) == split(H_of(a, p), a.dim_x + 1, a.dim_x + a.dim_v, 1, a.dim_x)
H4_of(a, p) == split(H_of(a, p), a.dim_x + 1, a.dim_x + a.dim_v, a.dim_x + 1, a.dim_x + a.dim_v)

Y_of(a, p) ==
    Scale(RNeg(Half),
          MSub(MAdd(MAdd(H1_of(a, p), Scale(a.contraction_rate_lb, P_of(a, p))), p.Y1),
               Transpose(p.Y1)))

Lambda_of(a, p) == Scale(Half, diag_embed(diagonal(H4_of(a, p))))

(* Variant: P^{-1} @ Y^T.                                                  *)
A_transposed(a, p) == MatMul(inverse(P_of(a, p)), Transpose(Y_of(a, p)))

A_of(a, p) == linear(inverse(P_of(a, p)), Transpose(Y_of(a, p)))

(* Variant: -Lambda^{-1} @ tril(H4, -1)^T.                                 *)
D11_transposed(a, p) ==
    MNeg(MatMul(inverse(Lambda_of(a, p)), Transpose(tril(H4_of(a, p), -1))))

D11_of(a, p) == MNeg(linear(inverse(Lambda_of(a, p)), Transpose(tril(H4_of(a, p), -1))))

C1_of(a, p) == linear(inverse(Lambda_of(a, p)), p.Chi)

Z_of(a, p) == MSub(MNeg(H2_of(a, p)), p.Chi)

B1_of(a, p) == linear(inverse(P_of(a, p)), Transpose(Z_of(a, p)))

(* The method: the new derived matrices, and whether torch.inverse raised  *)
(* on a singular matrix, in which case the assignments made before the     *)
(* failing line stay.                                                      *)
update_model_param(a, p, d) ==
    IF Singular(P_of(a, p))
    THEN [err |-> TRUE, der |-> [d EXCEPT !.P = P_of(a, p)]]
    ELSE IF Singular(Lambda_of(a, p))
    THEN [err |-> TRUE, der |-> [d EXCEPT !.P = P_of(a, p), !.A = A_of(a, p)]]
    ELSE [err |-> FALSE,
          der |-> [A |-> A_of(a, p), D11 |-> D11_of(a, p), C1 |-> C1_of(a, p),
                   B1 |-> B1_of(a, p), P |-> P_of(a, p)]]

-----------------------------------------------------------------------------
(* Tensor shapes, where the code's outcome depends on them.                *)
Max(m, n) == IF m >= n THEN m ELSE n

Pad(sh, n) == [i \in 1..n |-> IF i <= n - Len(sh) THEN 1 ELSE sh[i - (n - Len(sh))]]

(* The shape of a + b under broadcasting (trailing axes aligned).          *)
Broadcast(s1, s2) ==
    LET n == Max(Len(s1), Len(s2))
    IN  [i \in 1..n |-> IF Pad(s1, n)[i] = 1 THEN Pad(s2, n)[i] ELSE Pad(s1, n)[i]]

(* tensor.unsqueeze(1)                                                     *)
unsqueeze1(sh) == <<sh[1], 1>> \o SubSeq(sh, 2, Len(sh))

Last(sh) == sh[Len(sh)]

-----------------------------------------------------------------------------
(* CREN.forward.                                                           *)

(* nn.Tanh is transcendental; the model uses the piecewise linear function *)
(* through (0, 0), (1, 3/4), (2, 1) and constant beyond, which like tanh   *)
(* is odd, increasing, nonlinear, zero at zero and bounded by 1, and keeps *)
(* the denominators of the rationals small.                                *)
act(v) ==
    LET m == RAbs(v)
        y == IF ~RLt(One, m) THEN RMul(Rat(3, 4), m)
             ELSE IF ~RLt(Int2R(2), m) THEN RAdd(Half, RMul(Rat(1, 4), m))
             ELSE One
    IN  IF v[1] < 0 THEN RNeg(y) ELSE y

(* line 133: the input forward uses.                                       *)
u_forward == zeros(1, 2)

(* lines 140-141: the shape of v for a state of shape [b, 1, dim_x]:       *)
(* F.linear(x, C1[0, :]) is [b, 1], bv[0] * ones(b) is [b], F.linear(u,    *)
(* D12[0, :]) is [1]; then unsqueeze(1).                                   *)
vShape(b) == unsqueeze1(Broadcast(Broadcast(<<b, 1>>, <<b>>), <<1>>))

(* F.linear(u, D12[i, :]) needs dim_in = 2 (the width of u), and           *)
(* F.linear(act(v), vec), vec being [dim_v, 1], needs the last axis of v   *)
(* to be 1: otherwise torch raises.                                        *)
ForwardRaises(a, xin) ==
    \/ Cols(u_forward) # a.dim_in
    \/ Last(vShape(Rows(xin))) # 1

(* The pre-activation of row i (1-based) for one state xr, given the w     *)
(* built so far: line 140 for the first row, line 147 for the others.      *)
v_row(a, p, d, xr, w, i) ==
    IF i = 1
    THEN RAdd(RAdd(Dot(xr, d.C1[1]), p.bv[1][1]), Dot(u_forward[1], p.D12[1]))
    ELSE RAdd(RAdd(RAdd(Dot(xr, d.C1[i]), Dot(w, d.D11[i])), p.bv[i][1]),
              Dot(u_forward[1], p.D12[i]))

(* lines 136-137, 145-146: the unit vector of row i.                       *)
vec(a, i) == Tuple([k \in 1..a.dim_v |-> IF k = i THEN One ELSE Zero])

(* Variant: the activation is added to every entry of w.                   *)
w_step_all(a, p, d, xr, w, i) ==
    With(act(v_row(a, p, d, xr, w, i)),
         LAMBDA r : Tuple([k \in 1..a.dim_v |-> RAdd(w[k], r)]))

(* lines 142, 149: w = w + F.linear(act(v), vec).                          *)
w_step(a, p, d, xr, w, i) ==
    With(act(v_row(a, p, d, xr, w, i)),
         LAMBDA r : Tuple([k \in 1..a.dim_v |-> RAdd(w[k], RMul(r, vec(a, i)[k]))]))

(* The successive values of w for one state xr: w_trace(..)[i + 1] is w    *)
(* after the rows 1..i have been processed (line 139, then the loop).      *)
RECURSIVE w_trace(_, _, _, _, _)
w_trace(a, p, d, xr, i) ==
    IF i = 0 THEN <<Tuple([k \in 1..a.dim_v |-> Zero])>>
    ELSE With(w_trace(a, p, d, xr, i - 1),
              LAMBDA tr : Append(tr, w_step(a, p, d, xr, tr[i], i)))

(* lines 151-153                                                           *)
x_dot(a, p, d, xin, w) ==
    With(<<linear(xin, d.A), linear(w, d.B1), linear(ones(Rows(xin), 1), p.bx),
           linear(u_forward, p.B2)>>,
         LAMBDA s : Mat(Rows(xin), a.dim_x,
                        LAMBDA k, j : RAdd(RAdd(RAdd(s[1][k][j], s[2][k][j]), s[3][k][j]),
                                           s[4][1][j])))

(* The call: for each batch element the successive values of w, the final  *)
(* w, and the derivative.                                                  *)
forward(a, p, d, xin) ==
    IF ForwardRaises(a, xin) THEN [err |-> TRUE]
    ELSE With(Tuple([k \in 1..Rows(xin) |-> w_trace(a, p, d, xin[k], a.dim_v)]),
              LAMBDA ws :
                With(Tuple([k \in 1..Rows(xin) |-> ws[k][a.dim_v + 1]]),
                     LAMBDA w : [err |-> FALSE, xin |-> xin, ws |-> ws, w |-> w,
                                 u |-> u_forward, xdot |-> x_dot(a, p, d, xin, w)]))

-----------------------------------------------------------------------------
(* CREN.output, set_y_init, set_x_init.                                    *)
(* lines 157-165: the same for both values of linear_output.               *)
output(a, p, xi) == linear(xi, p.C2)

(* torch.linalg.lstsq(A, B) for A of full rank: with no more rows than     *)
(* columns the solution of A X = B of minimum norm, A^T (A A^T)^{-1} B;    *)
(* otherwise the least-squares solution (A^T A)^{-1} A^T B.                *)
lstsq(Am, Bm) ==
    IF Rows(Am) <= Cols(Am)
    THEN With(inverse(MatMul(Am, Transpose(Am))),
              LAMBDA G : MatMul(Transpose(Am), MatMul(G, Bm)))
    ELSE With(inverse(MatMul(Transpose(Am), Am)),
              LAMBDA G : MatMul(G, MatMul(Transpose(Am), Bm)))

set_x_init(x_init) == x_init

set_y_init(p, y_init) == set_x_init(Transpose(lstsq(p.C2, Transpose(y_init))))

-----------------------------------------------------------------------------
(* CREN.forward_trajectory.                                                *)

(* torchdiffeq's adaptive integrator is outside the repository; the model  *)
(* integrates with one explicit Euler step per interval of the grid        *)
(* linspace(0, 1, horizon), calling forward once per step.  odeint gives   *)
(* the forward calls made and the states at the grid points 1..t, or       *)
(* raised when forward raises.                                             *)
RECURSIVE odeint(_, _, _, _, _, _)
odeint(a, p, d, x0, horizon, t) ==
    IF t = 1 THEN [raised |-> FALSE, evals |-> <<>>, x_sim |-> <<x0>>]
    ELSE With(odeint(a, p, d, x0, horizon, t - 1),
              LAMBDA prev :
                IF prev.raised THEN prev
                ELSE With(forward(a, p, d, prev.x_sim[t - 1]),
                          LAMBDA f :
                            IF f.err THEN [raised |-> TRUE]
                            ELSE [raised |-> FALSE, evals |-> Append(prev.evals, f),
                                  x_sim |-> Append(prev.x_sim,
                                                   MAdd(prev.x_sim[t - 1],
                                                        Scale(Rat(1, horizon - 1), f.xdot)))]))

(* line 212: out.reshape(out.shape[1], out.shape[0], out.shape[3]) of a    *)
(* tensor of shape [horizon, b, 1, dim_out]: the elements keep their       *)
(* row-major order.                                                        *)
reshape(o, b, horizon) ==
    With(Tuple([f \in 1..(horizon * b) |-> o[((f - 1) \div b) + 1][((f - 1) % b) + 1]]),
         LAMBDA flat : Mat(b, horizon, LAMBDA k, t : flat[(k - 1) * horizon + t]))

forward_trajectory(a, p, d, u_in, y_init, horizon) ==
    With(set_y_init(p, y_init),
         LAMBDA x0 :
           With(odeint(a, p, d, x0, horizon, horizon),
                LAMBDA r :
                  IF r.raised
                  THEN [op |-> "forward_trajectory", err |-> TRUE, u_in |-> u_in,
                        y_init |-> y_init, horizon |-> horizon, x |-> x0]
                  ELSE [op |-> "forward_trajectory", err |-> FALSE, u_in |-> u_in,
                        y_init |-> y_init, horizon |-> horizon, x |-> x0,
                        x_sim |-> r.x_sim, evals |-> r.evals,
                        out |-> reshape(Tuple([t \in 1..horizon |-> output(a, p, r.x_sim[t])]),
                                        Rows(y_init), horizon)]))

-----------------------------------------------------------------------------
(* Persistence: state_dict, load_state_dict, get_init_params.              *)

(* The nn.Parameter attributes (lines 63-82).                              *)
ParamKeys(a) ==
    {"Pstar", "Chi", "X", "Y1", "B2", "D12", "C2", "D22"}
        \cup (IF a.linear_output THEN {} ELSE {"D21"})
        \cup (IF a.add_bias THEN {"bx", "bv", "by"} ELSE {})

state_dict(a, p) == [k \in ParamKeys(a) |-> p[k]]

Shape(M) == <<Rows(M), Cols(M)>>

(* nn.Module.load_state_dict (strict): the keys and shapes must agree.     *)
LoadRaises(a, p, sd) ==
    \/ DOMAIN sd # ParamKeys(a)
    \/ \E k \in DOMAIN sd : Shape(sd[k]) # Shape(p[k])

load_state_dict(a, p, sd) == [k \in DOMAIN p |-> IF k \in DOMAIN sd THEN sd[k] ELSE p[k]]

(* lines 216-228                                                           *)
get_init_params(a, h) ==
    [dim_in |-> a.dim_in, dim_out |-> a.dim_out, dim_x |-> a.dim_x, dim_v |-> a.dim_v,
     batch_size |-> a.batch_size, weight_init_std |-> a.weight_init_std,
     linear_output |-> a.linear_output, contraction_rate_lb |-> a.contraction_rate_lb,
     add_bias |-> a.add_bias, horizon |-> h]

(* A CREN built from the init params: the arguments __init__ sees, the    *)
(* ones not passed taking their defaults (line 14).                         *)
ArgsFromInitParams(ip) ==
    [dim_in |-> ip.dim_in, dim_out |-> ip.dim_out, dim_x |-> ip.dim_x, dim_v |-> ip.dim_v,
     batch_size |-> ip.batch_size, posdef_tol |-> DefaultPosdefTol,
     contraction_rate_lb |-> ip.contraction_rate_lb, add_bias |-> ip.add_bias,
     linear_output |-> ip.linear_output, weight_init_std |-> ip.weight_init_std]

-----------------------------------------------------------------------------
(* What the model can represent: no entry is Big.                          *)
DerOK(d) == \A k \in DOMAIN d : MatOK(d[k])

CallOK(c) ==
    IF c.err THEN TRUE
    ELSE /\ \A t \in 1..Len(c.x_sim) : MatOK(c.x_sim[t])
         /\ \A k \in 1..Len(c.out) : MatOK(c.out[k])

(* The seeds whose derived matrices are representable.                     *)
Family(a) ==
    { s \in Seeds : DerOK(update_model_param(a, InitParams(a, s), InitDerived(a)).der) }

(* Inputs of the calls.                                                    *)
UIns(a) == { zeros(a.batch_size, a.dim_in), ones(a.batch_size, a.dim_in) }
YInits(a) == { ones(a.batch_size, a.dim_out) }
Horizons == 2..MaxHorizon
XIns(a) == { zeros(a.batch_size, a.dim_x), ones(a.batch_size, a.dim_x) }

NoValue == <<>>
NoCall == [op |-> "none", err |-> FALSE]
NoSnap == [saved |-> FALSE]
NoScript == [total_epochs |-> 0]

-----------------------------------------------------------------------------
(* A client of one CREN object: it constructs the object and then calls    *)
(* its methods, recomputing the derived matrices after the optimizer has   *)
(* changed the parameters and before it simulates.                         *)
InitCREN ==
    /\ pc = "new"
    /\ args \in ArgSets
    /\ family = Family(args)
    /\ par = NoValue /\ der = NoValue /\ x = NoValue
    /\ horizonAttr = NoHorizon
    /\ call = NoCall
    /\ snap = NoSnap
    /\ nUpd = 0 /\ nCalls = 0
    /\ epoch = 0 /\ loss = 0 /\ best = NoValue /\ losses = <<>> /\ rollouts = 0
    /\ script = NoScript

trainVars == <<loss, best, losses, rollouts, script>>

(* CREN.__init__ (lines 41-98): no argument is checked; the parameters are *)
(* drawn, the derived matrices zeroed and update_model_param called.       *)
Construct ==
    /\ pc = "new"
    /\ \E s \in family :
         \E u \in {update_model_param(args, InitParams(args, s), InitDerived(args))} :
             /\ par' = InitParams(args, s)
             /\ der' = u.der
             /\ call' = [op |-> "__init__", err |-> u.err]
             /\ pc' = IF u.err THEN "raised" ELSE "ready"
    /\ x' = zeros(args.batch_size, args.dim_x)
    /\ nUpd' = 1
    /\ UNCHANGED <<args, horizonAttr, snap, epoch, nCalls, family, trainVars>>

(* The optimizer (outside the class) assigns new values to the parameters. *)
OptimizerStep ==
    /\ pc = "ready"
    /\ nUpd >= 1 /\ nCalls = 0
    /\ \E s \in family : par' = InitParams(args, s)
    /\ nUpd' = 0
    /\ call' = [op |-> "optimizer.step", err |-> FALSE]
    /\ UNCHANGED <<pc, args, der, x, horizonAttr, snap, epoch, nCalls, family, trainVars>>

UpdateModelParam ==
    /\ pc = "ready"
    /\ nUpd = 0
    /\ \E u \in {update_model_param(args, par, der)} :
           /\ der' = u.der
           /\ call' = [op |-> "update_model_param", err |-> u.err]
           /\ pc' = IF u.err THEN "raised" ELSE "ready"
    /\ nUpd' = nUpd + 1
    /\ UNCHANGED <<args, par, x, horizonAttr, snap, epoch, nCalls, family, trainVars>>

(* Variant: the call leaves the derived matrices zeroed.                   *)
ForwardTrajectoryWrites ==
    /\ pc = "ready"
    /\ nUpd >= 1 /\ nCalls < MaxCalls
    /\ \E u_in \in UIns(args), y_init \in YInits(args), horizon \in Horizons :
         \E r \in {forward_trajectory(args, par, der, u_in, y_init, horizon)} :
             /\ CallOK(r)
             /\ call' = r
             /\ x' = r.x
             /\ horizonAttr' = horizon
             /\ pc' = IF r.err THEN "raised" ELSE "ready"
    /\ der' = InitDerived(args)
    /\ nCalls' = nCalls + 1
    /\ UNCHANGED <<args, par, snap, nUpd, epoch, family, trainVars>>

(* lines 192-214: set_y_init writes self.x, then self.horizon is set; no   *)
(* parameter and no derived matrix is assigned.                            *)
ForwardTrajectory ==
    /\ pc = "ready"
    /\ nUpd >= 1 /\ nCalls < MaxCalls
    /\ \E u_in \in UIns(args), y_init \in YInits(args), horizon \in Horizons :
         \E r \in {forward_trajectory(args, par, der, u_in, y_init, horizon)} :
             /\ CallOK(r)
             /\ call' = r
             /\ x' = r.x
             /\ horizonAttr' = horizon
             /\ pc' = IF r.err THEN "raised" ELSE "ready"
    /\ nCalls' = nCalls + 1
    /\ UNCHANGED <<args, par, der, snap, nUpd, epoch, family, trainVars>>

(* forward(t, xi): one evaluation of the derivative.                       *)
Forward ==
    /\ pc = "ready"
    /\ nUpd >= 1 /\ nCalls < MaxCalls
    /\ \E xi \in XIns(args) :
         \E f \in {forward(args, par, der, xi)} :
             /\ IF f.err THEN TRUE ELSE MatOK(f.xdot)
             /\ call' = [op |-> "forward", err |-> f.err, res |-> f]
             /\ pc' = IF f.err THEN "raised" ELSE "ready"
    /\ nCalls' = nCalls + 1
    /\ UNCHANGED <<args, par, der, x, horizonAttr, snap, nUpd, epoch, family, trainVars>>

(* output(xi)                                                              *)
Output ==
    /\ pc = "ready"
    /\ nUpd >= 1 /\ nCalls < MaxCalls
    /\ \E xi \in XIns(args) :
         call' = [op |-> "output", err |-> FALSE, xi |-> xi, yt |-> output(args, par, xi)]
    /\ nCalls' = nCalls + 1
    /\ UNCHANGED <<pc, args, par, der, x, horizonAttr, snap, nUpd, epoch, family, trainVars>>

SetYInit ==
    /\ pc = "ready"
    /\ nUpd >= 1 /\ nCalls < MaxCalls
    /\ \E y_init \in YInits(args) :
         /\ x' = set_y_init(par, y_init)
         /\ call' = [op |-> "set_y_init", err |-> FALSE, y_init |-> y_init]
    /\ nCalls' = nCalls + 1
    /\ UNCHANGED <<pc, args, par, der, horizonAttr, snap, nUpd, epoch, family, trainVars>>

(* torch.save of the state dict and of get_init_params().  The snapshot    *)
(* also remembers the derived matrices of the saved model, which the file  *)
(* does not hold, for comparison after a reload.                           *)
Save ==
    /\ pc = "ready"
    /\ nUpd >= 1 /\ nCalls < MaxCalls
    /\ snap' = [saved |-> TRUE, model_state_dict |-> state_dict(args, par),
                init_params |-> get_init_params(args, horizonAttr),
                der |-> der, posdef_tol |-> args.posdef_tol]
    /\ call' = [op |-> "save", err |-> FALSE]
    /\ nCalls' = nCalls + 1
    /\ UNCHANGED <<pc, args, par, der, x, horizonAttr, nUpd, epoch, family, trainVars>>

(* A new CREN built from the saved init params, load_state_dict of the     *)
(* saved state dict, then update_model_param.                              *)
Reload ==
    /\ pc = "ready"
    /\ snap.saved
    /\ LET a == ArgsFromInitParams(snap.init_params)
       IN  \E s \in Family(a) :
             \E u \in {update_model_param(
                          a, load_state_dict(a, InitParams(a, s), snap.model_state_dict),
                          update_model_param(a, InitParams(a, s), InitDerived(a)).der)} :
                 /\ ~LoadRaises(a, InitParams(a, s), snap.model_state_dict)
                 /\ DerOK(u.der)
                 /\ args' = a
                 /\ par' = load_state_dict(a, InitParams(a, s), snap.model_state_dict)
                 /\ der' = u.der
                 /\ x' = zeros(a.batch_size, a.dim_x)
                 /\ horizonAttr' = snap.init_params.horizon
                 /\ call' = [op |-> "reload", err |-> u.err]
    /\ pc' = "reloaded"
    /\ nUpd' = 1
    /\ UNCHANGED <<snap, epoch, nCalls, family, trainVars>>

NextCREN ==
    \/ Construct
    \/ OptimizerStep
    \/ UpdateModelParam
    \/ ForwardTrajectory
    \/ Forward
    \/ Output
    \/ SetYInit
    \/ Save
    \/ Reload

SpecCREN == InitCREN /\ [][NextCREN]_vars

-----------------------------------------------------------------------------
(* The training script, ren_training.py, in program order.  Its model      *)
(* class is built, updated and simulated as the CREN above; the script     *)
(* passes linear_output = True, contraction_rate_lb = 1.0 and an input of  *)
(* width 2, and its plots read the second output component.                *)
ScriptDimIn == 2
ScriptDimOut == 2

(* args.patience_epoch and args.log_epoch: None (not given), or a number.  *)
OptionalArgs == { [given |-> FALSE], [given |-> TRUE, value |-> 1] }

ScriptArgs(nx, nv) ==
    [dim_in |-> ScriptDimIn, dim_out |-> ScriptDimOut, dim_x |-> nx, dim_v |-> nv,
     batch_size |-> 1, posdef_tol |-> DefaultPosdefTol, contraction_rate_lb |-> One,
     add_bias |-> FALSE, linear_output |-> TRUE, weight_init_std |-> DefaultWeightInitStd]

(* lines 32-34                                                             *)
MakeScript(total, patience, log, horizon) ==
    [total_epochs |-> total,
     patience_epoch |-> IF patience.given THEN patience.value ELSE total \div 5,
     log_epoch |-> IF log.given THEN log.value ELSE total \div 10,
     horizon |-> horizon,
     y_init |-> ones(1, ScriptDimOut),
     u_in |-> zeros(1, 2)]

(* y_init + y_init_std * (2 * rand - 1), line 167: a draw from the         *)
(* interval; the model draws the two ends and the middle.                  *)
y_init_std == Rat(1, 5)

RolloutYInits(y_init) ==
    { Mat(Rows(y_init), Cols(y_init), LAMBDA i, j : RAdd(y_init[i][j], RMul(y_init_std, Int2R(r))))
        : r \in {-1, 0, 1} }

(* The seeds whose derived matrices and script trajectory are              *)
(* representable.                                                          *)
TrainFamily(a, sc) ==
    { s \in Family(a) :
        CallOK(forward_trajectory(a, InitParams(a, s),
                                  update_model_param(a, InitParams(a, s), InitDerived(a)).der,
                                  sc.u_in, sc.y_init, sc.horizon)) }

(* lines 78-80: best_loss is inf and best_model_stat_dict None until a     *)
(* loss has been recorded.                                                 *)
NoBest == [recorded |-> FALSE, epoch |-> 0]

Init ==
    /\ pc = "t_construct"
    /\ \E nx \in 1..MaxDimX, nv \in 1..MaxDimV : args = ScriptArgs(nx, nv)
    /\ \E total \in 0..MaxEpochs, patience \in OptionalArgs, log \in OptionalArgs :
         script = MakeScript(total, patience, log, 2)
    /\ family = TrainFamily(args, script)
    /\ family # {}
    /\ par = NoValue /\ der = NoValue /\ x = NoValue
    /\ horizonAttr = NoHorizon
    /\ call = NoCall
    /\ snap = NoSnap
    /\ nUpd = 0 /\ nCalls = 0
    /\ epoch = 0 /\ loss = 0 /\ best = NoBest /\ losses = <<>> /\ rollouts = 0

(* lines 66-80: the model is constructed; the loop starts at epoch 0.      *)
TrainConstruct ==
    /\ pc = "t_construct"
    /\ \E s \in family :
         \E u \in {update_model_param(args, InitParams(args, s), InitDerived(args))} :
             /\ par' = InitParams(args, s)
             /\ der' = u.der
             /\ call' = [op |-> "__init__", err |-> u.err]
             /\ pc' = IF u.err THEN "crashed"
                      ELSE IF script.total_epochs = 0 THEN "t_save" ELSE "t_forward"
    /\ x' = zeros(args.batch_size, args.dim_x)
    /\ nUpd' = 1
    /\ UNCHANGED <<args, horizonAttr, snap, epoch, nCalls, family, trainVars>>

(* line 103                                                                *)
TrainForward ==
    /\ pc = "t_forward"
    /\ \E r \in {forward_trajectory(args, par, der, script.u_in, script.y_init, script.horizon)} :
           /\ CallOK(r)
           /\ call' = r
           /\ x' = r.x
           /\ horizonAttr' = script.horizon
           /\ pc' = IF r.err THEN "crashed" ELSE "t_loss"
    /\ UNCHANGED <<args, par, der, snap, nUpd, epoch, nCalls, family, trainVars>>

(* Variant: the best model is replaced on a tie (loss <= best_loss).       *)
TrainLossNonStrict ==
    /\ pc = "t_loss"
    /\ \E l \in 0..MaxLoss :
         LET better == IF best.recorded THEN l <= best.loss ELSE TRUE
             b == IF better THEN [recorded |-> TRUE, loss |-> l, epoch |-> epoch,
                                  dict |-> state_dict(args, par)]
                  ELSE best
         IN  /\ loss' = l
             /\ losses' = Append(losses, [loss |-> l, params |-> state_dict(args, par)])
             /\ best' = b
             /\ pc' = IF epoch - b.epoch > script.patience_epoch THEN "t_save" ELSE "t_step"
    /\ UNCHANGED <<args, par, der, x, horizonAttr, call, snap, nUpd, epoch, nCalls, family,
                   rollouts, script>>

(* lines 106-117: the loss (MSELoss against the expert trajectory, which   *)
(* the model draws), the best model so far, and the patience check.  The   *)
(* history losses keeps each loss with the parameters that produced it.    *)
TrainLoss ==
    /\ pc = "t_loss"
    /\ \E l \in 0..MaxLoss :
         LET better == IF best.recorded THEN l < best.loss ELSE TRUE
             b == IF better THEN [recorded |-> TRUE, loss |-> l, epoch |-> epoch,
                                  dict |-> state_dict(args, par)]
                  ELSE best
         IN  /\ loss' = l
             /\ losses' = Append(losses, [loss |-> l, params |-> state_dict(args, par)])
             /\ best' = b
             /\ pc' = IF epoch - b.epoch > script.patience_epoch THEN "t_save" ELSE "t_step"
    /\ UNCHANGED <<args, par, der, x, horizonAttr, call, snap, nUpd, epoch, nCalls, family,
                   rollouts, script>>

(* lines 120-122: optimizer.step() assigns new values to the parameters.   *)
TrainStep ==
    /\ pc = "t_step"
    /\ \E s \in family : par' = InitParams(args, s)
    /\ nUpd' = 0
    /\ call' = [op |-> "optimizer.step", err |-> FALSE]
    /\ pc' = "t_update"
    /\ UNCHANGED <<args, der, x, horizonAttr, snap, epoch, nCalls, family, trainVars>>

(* Variant: the loop goes on without calling update_model_param.           *)
TrainUpdateSkipped ==
    /\ pc = "t_update"
    /\ call' = [op |-> "none", err |-> FALSE]
    /\ pc' = IF script.log_epoch = 0 THEN "crashed"
             ELSE IF epoch + 1 < script.total_epochs THEN "t_forward" ELSE "t_save"
    /\ epoch' = epoch + 1
    /\ UNCHANGED <<args, par, der, x, horizonAttr, snap, nUpd, nCalls, family, trainVars>>

(* lines 123-132: update_model_param, then the log line, whose             *)
(* epoch % log_epoch divides by zero when log_epoch is 0, and the next     *)
(* iteration of the loop.                                                  *)
TrainUpdate ==
    /\ pc = "t_update"
    /\ \E u \in {update_model_param(args, par, der)} :
           /\ der' = u.der
           /\ call' = [op |-> "update_model_param", err |-> u.err]
           /\ pc' = IF u.err \/ script.log_epoch = 0 THEN "crashed"
                    ELSE IF epoch + 1 < script.total_epochs THEN "t_forward" ELSE "t_save"
    /\ nUpd' = nUpd + 1
    /\ epoch' = epoch + 1
    /\ UNCHANGED <<args, par, x, horizonAttr, snap, nCalls, family, trainVars>>

(* lines 139-143: torch.save of the best state dict.                       *)
TrainSave ==
    /\ pc = "t_save"
    /\ snap' = IF best.recorded THEN [saved |-> TRUE, model_state_dict |-> best.dict]
               ELSE [saved |-> TRUE]
    /\ call' = [op |-> "save", err |-> FALSE]
    /\ pc' = "t_load"
    /\ UNCHANGED <<args, par, der, x, horizonAttr, nUpd, epoch, nCalls, family, trainVars>>

(* line 146: load_state_dict of the best state dict, which is None when no *)
(* epoch ran.                                                              *)
TrainLoad ==
    /\ pc = "t_load"
    /\ IF ~best.recorded
       THEN /\ call' = [op |-> "load_state_dict", err |-> TRUE]
            /\ pc' = "crashed"
            /\ UNCHANGED <<par, nUpd>>
       ELSE /\ call' = [op |-> "load_state_dict", err |-> LoadRaises(args, par, best.dict)]
            /\ pc' = IF LoadRaises(args, par, best.dict) THEN "crashed" ELSE "t_update_loaded"
            /\ par' = load_state_dict(args, par, best.dict)
            /\ nUpd' = 0
    /\ UNCHANGED <<args, der, x, horizonAttr, snap, epoch, nCalls, family, trainVars>>

(* line 147                                                                *)
TrainUpdateLoaded ==
    /\ pc = "t_update_loaded"
    /\ \E u \in {update_model_param(args, par, der)} :
           /\ der' = u.der
           /\ call' = [op |-> "update_model_param", err |-> u.err]
           /\ pc' = IF u.err THEN "crashed" ELSE "t_rollouts_std"
    /\ nUpd' = nUpd + 1
    /\ UNCHANGED <<args, par, x, horizonAttr, snap, epoch, nCalls, family, trainVars>>

(* lines 166-168: one rollout from a perturbed initial output.             *)
TrainRolloutStd ==
    /\ pc = "t_rollouts_std"
    /\ \E y_init_rollout \in RolloutYInits(script.y_init) :
         \E r \in {forward_trajectory(args, par, der, script.u_in, y_init_rollout, script.horizon)} :
             /\ CallOK(r)
             /\ call' = r
             /\ x' = r.x
             /\ horizonAttr' = script.horizon
             /\ pc' = IF r.err THEN "crashed"
                      ELSE IF rollouts + 1 < MaxRollouts THEN "t_rollouts_std" ELSE "t_rollouts"
    /\ rollouts' = IF rollouts + 1 < MaxRollouts THEN rollouts + 1 ELSE 0
    /\ UNCHANGED <<args, par, der, snap, nUpd, epoch, nCalls, family, loss, best, losses, script>>

(* lines 184-185: one rollout from y_init.                                 *)
TrainRollout ==
    /\ pc = "t_rollouts"
    /\ \E r \in {forward_trajectory(args, par, der, script.u_in, script.y_init, script.horizon)} :
           /\ CallOK(r)
           /\ call' = r
           /\ x' = r.x
           /\ horizonAttr' = script.horizon
           /\ pc' = IF r.err THEN "crashed"
                    ELSE IF rollouts + 1 < MaxRollouts THEN "t_rollouts" ELSE "done"
    /\ rollouts' = rollouts + 1
    /\ UNCHANGED <<args, par, der, snap, nUpd, epoch, nCalls, family, loss, best, losses, script>>

Next ==
    \/ TrainConstruct
    \/ TrainForward
    \/ TrainLoss
    \/ TrainStep
    \/ TrainUpdate
    \/ TrainSave
    \/ TrainLoad
    \/ TrainUpdateLoaded
    \/ TrainRolloutStd
    \/ TrainRollout

Spec == Init /\ [][Next]_vars

-----------------------------------------------------------------------------
(* Properties of the projector, update_model_param.                        *)

(* The object holds derived matrices computed by a successful              *)
(* update_model_param.                                                     *)
Updated == pc \in {"ready", "reloaded"}

(* C2: after update_model_param, for every value of the free parameters    *)
(* and every dim_v >= 1, D11 is strictly lower triangular: its diagonal    *)
(* and upper entries are exactly zero.                                     *)
C2_D11StrictlyLower ==
    Updated =>
        /\ Shape(der.D11) = <<args.dim_v, args.dim_v>>
        /\ \A i, j \in 1..args.dim_v : (j >= i) => der.D11[i][j] = Zero

(* An updated model with two implicit rows and a non-zero entry below the  *)
(* diagonal of D11.                                                        *)
C2_Witness ==
    /\ Updated /\ call.op = "update_model_param"
    /\ args.dim_v >= 2
    /\ der.D11[2][1] # Zero

Symmetric(M) == \A i, j \in 1..Rows(M) : M[i][j] = M[j][i]

LeadingBlock(M, k) == split(M, 1, k, 1, k)

TestVectors(n) == { v \in [1..n -> {-1, 0, 1}] : \E i \in 1..n : v[i] # 0 }

QuadraticForm(M, v) ==
    RSum(Tuple([i \in 1..Rows(M) |->
           RSum(Tuple([j \in 1..Rows(M) |-> RMul(Int2R(v[i] * v[j]), M[i][j])]))]))

(* r > 0, for an r within the magnitudes the arithmetic represents.        *)
PosIfKnown(r) == r = Big \/ RPos(r)

(* C3: after update_model_param with posdef_tol > 0, for every value of    *)
(* Pstar the matrix P is symmetric and positive definite: its leading      *)
(* principal minors are positive (Sylvester), and x^T P x > 0 for the      *)
(* non-zero vectors x with entries in {-1, 0, 1}.                          *)
C3_PSymmetricPosDef ==
    (Updated /\ RPos(args.posdef_tol)) =>
        /\ Symmetric(der.P)
        /\ \A k \in 1..args.dim_x : PosIfKnown(Det(LeadingBlock(der.P, k)))
        /\ \A v \in TestVectors(args.dim_x) : PosIfKnown(QuadraticForm(der.P, v))

(* An updated model with posdef_tol > 0, two states, a Pstar that is not   *)
(* symmetric and a P with a non-zero off-diagonal entry.                   *)
C3_Witness ==
    /\ Updated /\ call.op = "update_model_param"
    /\ RPos(args.posdef_tol)
    /\ args.dim_x >= 2
    /\ par.Pstar[1][2] # par.Pstar[2][1]
    /\ der.P[1][2] # Zero

(* The matrices of the free parameters the formulas are stated with.       *)
H_spec == MAdd(MatMul(par.X, Transpose(par.X)), Scale(args.posdef_tol, eye(args.dim_x + args.dim_v)))
H1_spec == LeadingBlock(H_spec, args.dim_x)
H2_spec == split(H_spec, 1, args.dim_x, args.dim_x + 1, args.dim_x + args.dim_v)
H4_spec == split(H_spec, args.dim_x + 1, args.dim_x + args.dim_v,
                 args.dim_x + 1, args.dim_x + args.dim_v)
StrictLower_spec ==
    Mat(args.dim_v, args.dim_v, LAMBDA i, j : IF j < i THEN H4_spec[i][j] ELSE Zero)
Y_spec ==
    Scale(RNeg(Half),
          MSub(MAdd(MAdd(H1_spec, Scale(args.contraction_rate_lb, der.P)), par.Y1),
               Transpose(par.Y1)))
Lambda_spec ==
    Mat(args.dim_v, args.dim_v, LAMBDA i, j : IF i = j THEN RMul(Half, H4_spec[i][i]) ELSE Zero)

(* M @ N = R, false when the shapes do not fit; products beyond the        *)
(* magnitudes the arithmetic represents are not compared.                  *)
ProductIs(M, N, R) ==
    IF Cols(M) # Rows(N) \/ Shape(R) # <<Rows(M), Cols(N)>> THEN FALSE
    ELSE With(MatMul(M, N), LAMBDA m : MatOK(m) /\ MatOK(R) => m = R)

(* C10 as stated: after update_model_param, P A = Y^T,                     *)
(* Lambda D11 = -strict_lower(H4)^T, Lambda C1 = Chi and                   *)
(* P B1 = (-H2 - Chi)^T, for every value of the free parameters.           *)
C10_AsStated ==
    (Updated /\ nUpd >= 1) =>
        /\ ProductIs(der.P, der.A, Transpose(Y_spec))
        /\ ProductIs(Lambda_spec, der.D11, MNeg(Transpose(StrictLower_spec)))
        /\ ProductIs(Lambda_spec, der.C1, par.Chi)
        /\ ProductIs(der.P, der.B1, Transpose(MSub(MNeg(H2_spec), par.Chi)))

(* C10, amended: after update_model_param, P A = Y,                        *)
(* Lambda D11 = -strict_lower(H4), Lambda C1 = Chi^T and                   *)
(* P B1 = -H2 - Chi, with Y = -0.5 (H1 + contraction_rate_lb P + Y1 - Y1^T)*)
(* and Lambda = 0.5 diag(diag(H4)), for every value of the free parameters.*)
C10_ProjectorFormulas ==
    (Updated /\ nUpd >= 1) =>
        /\ ProductIs(der.P, der.A, Y_spec)
        /\ ProductIs(Lambda_spec, der.D11, MNeg(StrictLower_spec))
        /\ ProductIs(Lambda_spec, der.C1, Transpose(par.Chi))
        /\ ProductIs(der.P, der.B1, MSub(MNeg(H2_spec), par.Chi))

(* An updated model of two states and two implicit rows in which Y is not  *)
(* symmetric and H4 has a non-zero entry below its diagonal, so that the   *)
(* transposes matter.                                                      *)
C10_Witness ==
    /\ Updated /\ nUpd >= 1 /\ call.op = "update_model_param"
    /\ args.dim_x >= 2 /\ args.dim_v >= 2
    /\ Y_spec # Transpose(Y_spec)
    /\ StrictLower_spec[2][1] # Zero

-----------------------------------------------------------------------------
(* Properties of forward, output and forward_trajectory.                   *)

(* The forward evaluations the last call made: the call itself, or the     *)
(* evaluations of the integrator.                                          *)
ForwardRecords ==
    IF call.err THEN {}
    ELSE IF call.op = "forward" THEN {call.res}
    ELSE IF call.op = "forward_trajectory" THEN {call.evals[t] : t \in 1..Len(call.evals)}
    ELSE {}

(* C1[i, :] x + sum over j < i of D11[i, j] w_j + D12[i, :] u + bv[i]      *)
PartialSum(f, k, i) ==
    RAdd(RAdd(RAdd(Dot(f.xin[k], der.C1[i]),
                   RSum(Tuple([j \in 1..(i - 1) |-> RMul(der.D11[i][j], f.w[k][j])]))),
              Dot(f.u[1], par.D12[i])),
         par.bv[i][1])

(* C4: the implicit solve in forward is an exact forward substitution: for *)
(* every row i, w_i is the activation of C1[i,:] x + sum over j < i of     *)
(* D11[i,j] w_j + D12[i,:] u + bv[i]; when row i is computed the entries   *)
(* w_j, j >= i, are still zero, and computing row i writes w_i only.       *)
C4_ForwardSubstitution ==
    \A f \in ForwardRecords : \A k \in 1..Rows(f.xin) : \A i \in 1..args.dim_v :
        /\ PartialSum(f, k, i) # Big => f.w[k][i] = act(PartialSum(f, k, i))
        /\ \A j \in i..args.dim_v : f.ws[k][i][j] = Zero
        /\ \A j \in 1..args.dim_v : (j # i) => f.ws[k][i + 1][j] = f.ws[k][i][j]
        /\ f.ws[k][args.dim_v + 1][i] = f.ws[k][i + 1][i]
        /\ f.w[k] = f.ws[k][args.dim_v + 1]

(* A forward call on a non-zero state with two implicit rows in which the  *)
(* second row feeds on a non-zero first one.                               *)
C4_Witness ==
    /\ call.op = "forward" /\ ~call.err
    /\ args.dim_v >= 2
    /\ call.res.xin[1][1] # Zero
    /\ der.D11[2][1] # Zero
    /\ call.res.w[1][1] # Zero
    /\ call.res.w[1][2] # Zero

(* C5 as stated: forward_trajectory(u_in, y_init, horizon) drives the      *)
(* dynamics with the caller's input: the u of every derivative evaluation  *)
(* is the u_in supplied (here for dim_in = 2 and one batch element, where  *)
(* the call does not raise).                                               *)
C5_AsStated ==
    (call.op = "forward_trajectory" /\ args.batch_size = 1 /\ args.dim_in = 2) =>
        /\ ~call.err
        /\ \A t \in 1..Len(call.evals) : call.evals[t].u = call.u_in

(* One row of a batched call as a call of its own, with the same matrices. *)
SingleCall(k) ==
    forward_trajectory([args EXCEPT !.batch_size = 1], par, der,
                       <<call.u_in[k]>>, <<call.y_init[k]>>, call.horizon)

(* C6 as stated: for every batch size b >= 1, forward_trajectory returns a *)
(* tensor of shape [b, horizon, dim_out] whose row k is the result of an   *)
(* independent call of batch size 1 on y_init[k] with the same matrices.   *)
C6_AsStated ==
    (call.op = "forward_trajectory" /\ args.dim_in = 2) =>
        /\ ~call.err
        /\ Len(call.out) = args.batch_size
        /\ \A k \in 1..args.batch_size :
             /\ Len(call.out[k]) = call.horizon
             /\ \A t \in 1..call.horizon : Len(call.out[k][t]) = args.dim_out
             /\ call.out[k] = SingleCall(k).out[1]

(* C7 as stated: constructing a CREN with posdef_tol <= 0 is rejected at   *)
(* construction, before any derived matrix is computed.                    *)
C7_AsStated ==
    (call.op = "__init__" /\ ~RPos(args.posdef_tol)) =>
        /\ call.err
        /\ der = InitDerived(args)

(* C8 as stated: after saving, reloading into a model built from the saved *)
(* constructor arguments and calling update_model_param, the derived       *)
(* matrices are those of the original model, for every configuration with  *)
(* a positive posdef_tol, the default or not.                              *)
C8_AsStated ==
    (pc = "reloaded" /\ RPos(snap.posdef_tol)) => (~call.err /\ der = snap.der)

(* C2 x + D21 w + D22 u + by, w being the implicit feedback at x.          *)
FullOutput(xi) ==
    LET f == forward(args, par, der, xi)
        s == <<linear(xi, par.C2), linear(f.w, par.D21), linear(f.u, par.D22)>>
    IN  Mat(Rows(xi), args.dim_out,
            LAMBDA k, j : RAdd(RAdd(RAdd(s[1][k][j], s[2][k][j]), s[3][1][j]), par.by[j][1]))

(* C9 as stated: output(x) is C2 x when linear_output is True, and with    *)
(* linear_output False it incorporates D21, D22, by and the implicit       *)
(* feedback w as well.                                                     *)
C9_AsStated ==
    (call.op = "output" /\ ~ForwardRaises(args, call.xi)) =>
        IF args.linear_output THEN call.yt = MatMul(call.xi, Transpose(par.C2))
        ELSE MatOK(FullOutput(call.xi)) => call.yt = FullOutput(call.xi)

-----------------------------------------------------------------------------
(* Properties of the training script.                                      *)

(* The derived matrices of the current parameters.                         *)
FreshDerived == update_model_param(args, par, InitDerived(args)).der

(* forward_trajectory is about to be called, or is the last call made.     *)
AtForwardTrajectory ==
    \/ pc \in {"t_forward", "t_rollouts_std", "t_rollouts"}
    \/ call.op = "forward_trajectory"

(* C1: in every run of the training script, no forward_trajectory call     *)
(* executes against derived matrices computed from superseded parameters:  *)
(* update_model_param has been invoked exactly once since the last         *)
(* mutation of the parameters (construction, optimizer.step,               *)
(* load_state_dict), so the derived matrices are those of the current      *)
(* parameters.                                                             *)
C1_NoStaleForwardTrajectory ==
    AtForwardTrajectory => (nUpd = 1 /\ der = FreshDerived)

(* A rollout of the reloaded best model, recorded at the first epoch,      *)
(* after two optimizer steps that left the derived matrices of the initial *)
(* parameters behind.                                                      *)
C1_Witness ==
    /\ pc = "done" /\ call.op = "forward_trajectory" /\ ~call.err
    /\ epoch >= 2 /\ best.recorded /\ best.epoch = 0
    /\ rollouts >= 1

-----------------------------------------------------------------------------
(* Frame of the methods that read the matrices.                            *)

ReadingMethods == {"forward", "output", "set_y_init", "forward_trajectory"}

(* The step is a call of forward, output, set_y_init (and the set_x_init   *)
(* it ends with) or forward_trajectory.                                    *)
ReadingCall == nCalls' = nCalls + 1 /\ call'.op \in ReadingMethods

(* The derivative evaluations the call reports, as forward gives them on   *)
(* the matrices the object holds after the call.                           *)
EvalsUseHeldMatrices(c, a, p, d) ==
    IF c.op = "forward_trajectory" /\ ~c.err
    THEN \A t \in 1..Len(c.evals) : c.evals[t] = forward(a, p, d, c.x_sim[t])
    ELSE TRUE

(* C11: forward, output, set_x_init, set_y_init and forward_trajectory     *)
(* leave the derived matrices A, B1, C1, D11, P and the ParameterSet       *)
(* unchanged, and every derivative evaluation of one trajectory is made    *)
(* with those same matrices.                                               *)
C11_ReadersLeaveMatrices ==
    [][ReadingCall => /\ der' = der
                      /\ par' = par
                      /\ EvalsUseHeldMatrices(call', args, par, der)]_vars

(* A trajectory of at least two derivative evaluations on a model with two *)
(* states and two implicit rows, after it has written self.x.              *)
C11_Witness ==
    /\ call.op = "forward_trajectory" /\ ~call.err
    /\ nCalls = 1
    /\ Len(call.evals) >= 2
    /\ args.dim_x >= 2 /\ args.dim_v >= 2
    /\ x # zeros(args.batch_size, args.dim_x)

-----------------------------------------------------------------------------
(* Best-model tracking of the training loop.                               *)

(* The least loss computed so far, and the first epoch that attained it    *)
(* (epochs count from 0, losses[e + 1] is the loss of epoch e).            *)
MinLoss == CHOOSE m \in {losses[i].loss : i \in 1..Len(losses)} :
               \A i \in 1..Len(losses) : m <= losses[i].loss

FirstEpochOfMin == (CHOOSE i \in 1..Len(losses) :
                       /\ losses[i].loss = MinLoss
                       /\ \A j \in 1..(i - 1) : losses[j].loss # MinLoss) - 1

(* The model has been loaded after the loop and updated.                   *)
LoadedForRollouts == pc \in {"t_rollouts_std", "t_rollouts", "done"}

(* C12: in the training loop, once a loss has been computed, best_loss is  *)
(* the minimum of the losses computed so far, best_train_epoch the first   *)
(* epoch that attained it, and best_model_stat_dict the parameters that    *)
(* produced that loss; the model the rollouts run on holds exactly those   *)
(* parameters.                                                             *)
C12_BestModelTracked ==
    /\ (Len(losses) >= 1) =>
           /\ best.recorded
           /\ best.loss = MinLoss
           /\ best.epoch = FirstEpochOfMin
           /\ best.dict = losses[best.epoch + 1].params
    /\ LoadedForRollouts =>
           /\ Len(losses) >= 1
           /\ state_dict(args, par) = losses[FirstEpochOfMin + 1].params
           /\ der = FreshDerived

(* The rollouts are done on the model of the first epoch, after a second   *)
(* epoch that ran on other parameters and tied its loss.                   *)
C12_Witness ==
    /\ pc = "done"
    /\ Len(losses) >= 2
    /\ losses[2].loss = losses[1].loss
    /\ losses[2].params # losses[1].params
    /\ best.epoch = 0
    /\ state_dict(args, par) = losses[1].params

=============================================================================
